---- MODULE Spec2Model ----
(***************************************************************************)
(* A model of mmgrexport.py: the MoneyManagerQuery class (date range       *)
(* resolution, record transformation, report rendering) and the __main__   *)
(* block that drives it.                                                    *)
(*                                                                          *)
(* Python strings are sequences of one-character strings, so that split,   *)
(* find, strip, lower, int() and str() are computed character by character. *)
(* A float amount is an integer number of thousandths (exact decimal        *)
(* arithmetic); FloatStr gives the text str() produces for it.              *)
(***************************************************************************)
EXTENDS Integers, Sequences, FiniteSets, TLC

VARIABLES
    now,            \* datetime.now(): [year, month]
    startDate,      \* self.startDate
    endDate,        \* self.endDate
    queryStatement, \* self.queryStatement: None or the BETWEEN bounds of the SELECT
    totalAmount,    \* self.totalAmount
    store,          \* rows of the database file, in z.zdate order
    renders,        \* the texts toString() has returned so far, oldest first
    pc,             \* position of the caller
    args,           \* argparse namespace: month, start, end
    lastOp,         \* the method that ran last
    arg,            \* its argument
    ret             \* what it returned (or the exception it raised)

vars == <<now, startDate, endDate, queryStatement, totalAmount, store,
          renders, pc, args, lastOp, arg, ret>>

(***************************************************************************)
(* Bounds of the model.                                                     *)
(***************************************************************************)
MaxTokLen == 3     \* longest generated month token
MaxCatLen == 4     \* longest generated category
MaxMilli == 12400  \* largest amount, in thousandths
MaxRecords == 2    \* most rows in the store
MaxRenders == 2    \* most toString() calls on one instance

(***************************************************************************)
(* Python values.                                                           *)
(***************************************************************************)
None == [kind |-> "none"]

Date(y, m, d) == [kind |-> "date", year |-> y, month |-> m, day |-> d]

Str(s) == [kind |-> "str", s |-> s]

Raised(e) == [kind |-> "error", type |-> e]

SeqsUpTo(A, n) == UNION {[1..k -> A] : k \in 0..n}

(***************************************************************************)
(* Built-in string operations, as the code uses them.                       *)
(***************************************************************************)
DigitChars == <<"0", "1", "2", "3", "4", "5", "6", "7", "8", "9">>

UpperChars == <<"A","B","C","D","E","F","G","H","I","J","K","L","M",
                "N","O","P","Q","R","S","T","U","V","W","X","Y","Z">>

LowerChars == <<"a","b","c","d","e","f","g","h","i","j","k","l","m",
                "n","o","p","q","r","s","t","u","v","w","x","y","z">>

IsDigit(c) == \E i \in 1..10 : DigitChars[i] = c

DigitVal(c) == (CHOOSE i \in 1..10 : DigitChars[i] = c) - 1

\* str.lower()
LowerChar(c) ==
    IF \E i \in 1..26 : UpperChars[i] = c
    THEN LowerChars[CHOOSE i \in 1..26 : UpperChars[i] = c]
    ELSE c

lower(s) == [i \in 1..Len(s) |-> LowerChar(s[i])]

\* str.find(c): index of the first c, counted from 0, or -1
find(s, c) ==
    IF \E i \in 1..Len(s) : s[i] = c
    THEN (CHOOSE i \in 1..Len(s) : s[i] = c /\ \A j \in 1..(i-1) : s[j] # c) - 1
    ELSE -1

\* str.split(c)
RECURSIVE split(_, _)
split(s, c) ==
    IF find(s, c) < 0
    THEN <<s>>
    ELSE <<SubSeq(s, 1, find(s, c))>> \o split(SubSeq(s, find(s, c) + 2, Len(s)), c)

\* str.strip()
RECURSIVE lstrip(_)
lstrip(s) == IF Len(s) > 0 /\ s[1] = " " THEN lstrip(Tail(s)) ELSE s

RECURSIVE rstrip(_)
rstrip(s) ==
    IF Len(s) > 0 /\ s[Len(s)] = " " THEN rstrip(SubSeq(s, 1, Len(s) - 1)) ELSE s

strip(s) == rstrip(lstrip(s))

RECURSIVE DigitsVal(_)
DigitsVal(s) ==
    IF Len(s) = 0 THEN 0
    ELSE 10 * DigitsVal(SubSeq(s, 1, Len(s) - 1)) + DigitVal(s[Len(s)])

\* int(s): surrounding blanks, an optional sign, then decimal digits;
\* ok = FALSE stands for ValueError
IntParse(s) ==
    LET t == strip(s)
        signed == Len(t) > 0 /\ t[1] \in {"+", "-"}
        body == IF signed THEN Tail(t) ELSE t
        ok == Len(body) > 0 /\ \A i \in 1..Len(body) : IsDigit(body[i])
    IN  [ok |-> ok,
         val |-> IF ok
                 THEN (IF signed /\ t[1] = "-" THEN -1 ELSE 1) * DigitsVal(body)
                 ELSE 0]

\* str(n) of an int
RECURSIVE NatStr(_)
NatStr(n) ==
    IF n < 10 THEN <<DigitChars[n + 1]>>
    ELSE NatStr(n \div 10) \o <<DigitChars[(n % 10) + 1]>>

IntStr(n) == IF n < 0 THEN <<"-">> \o NatStr(-n) ELSE NatStr(n)

\* zero padding of strftime's %d, %m, %Y and of date.__str__
RECURSIVE ZeroPad(_, _)
ZeroPad(s, w) == IF Len(s) >= w THEN s ELSE ZeroPad(<<"0">> \o s, w)

\* str(x) of a float x = milli/1000: the shortest decimal text, which always
\* keeps at least one fractional digit
FloatStr(milli) ==
    LET a == IF milli < 0 THEN -milli ELSE milli
        f == a % 1000
        frac == IF f % 100 = 0 THEN NatStr(f \div 100)
                ELSE IF f % 10 = 0 THEN ZeroPad(NatStr(f \div 10), 2)
                ELSE ZeroPad(NatStr(f), 3)
    IN  (IF milli < 0 THEN <<"-">> ELSE <<>>) \o NatStr(a \div 1000) \o <<".">> \o frac

\* calendar.isleap and calendar.monthrange(year, month)[1]
isleap(year) == year % 4 = 0 /\ (year % 100 # 0 \/ year % 400 = 0)

monthrange(year, month) ==
    IF month = 2 THEN (IF isleap(year) THEN 29 ELSE 28)
    ELSE IF month \in {4, 6, 9, 11} THEN 30
    ELSE 31

\* str(d) of a datetime.date: YYYY-MM-DD
DateStr(d) ==
    ZeroPad(NatStr(d.year), 4) \o <<"-">> \o ZeroPad(NatStr(d.month), 2)
        \o <<"-">> \o ZeroPad(NatStr(d.day), 2)

\* str(v) as getQueryStatement applies it to a date or to a str
PyStr(v) == IF v.kind = "date" THEN DateStr(v) ELSE v.s

\* byte order of the characters of a date text, and the text comparison of
\* SQLite's BETWEEN (BINARY collation)
OrdChars == <<"-", "0", "1", "2", "3", "4", "5", "6", "7", "8", "9">>

Ord(c) == CHOOSE i \in 1..Len(OrdChars) : OrdChars[i] = c

RECURSIVE StrLE(_, _)
StrLE(a, b) ==
    IF Len(a) = 0 THEN TRUE
    ELSE IF Len(b) = 0 THEN FALSE
    ELSE IF a[1] = b[1] THEN StrLE(Tail(a), Tail(b))
    ELSE Ord(a[1]) < Ord(b[1])

(***************************************************************************)
(* MoneyManagerQuery: month tokens.                                         *)
(***************************************************************************)
MonthTable ==
    {  <<<<"j","a","n">>, 1>>,
       <<<<"j","a","n","u","a","r","y">>, 1>>,
       <<<<"e","n","e">>, 1>>,
       <<<<"e","n","e","r","o">>, 1>>,
       <<<<"f","e","b">>, 2>>,
       <<<<"f","e","b","r","u","a","r","y">>, 2>>,
       <<<<"f","e","b","r","e","r","o">>, 2>>,
       <<<<"m","a","r">>, 3>>,
       <<<<"m","a","r","c","h">>, 3>>,
       <<<<"m","a","r","z","o">>, 3>>,
       <<<<"a","p","r">>, 4>>,
       <<<<"a","p","r","i","l">>, 4>>,
       <<<<"a","b","r">>, 4>>,
       <<<<"a","b","r","i","l">>, 4>>,
       <<<<"m","a","y">>, 5>>,
       <<<<"m","a","y","o">>, 5>>,
       <<<<"j","u","n">>, 6>>,
       <<<<"j","u","n","e">>, 6>>,
       <<<<"j","u","n","i","o">>, 6>>,
       <<<<"j","u","l">>, 7>>,
       <<<<"j","u","l","y">>, 7>>,
       <<<<"j","u","l","i","o">>, 7>>,
       <<<<"a","u","g">>, 8>>,
       <<<<"a","u","g","u","s","t">>, 8>>,
       <<<<"a","g","o">>, 8>>,
       <<<<"a","g","o","s","t","o">>, 8>>,
       <<<<"s","e","p">>, 9>>,
       <<<<"s","e","p","t","e","m","b","e","r">>, 9>>,
       <<<<"s","e","p","t","i","e","m","b","r","e">>, 9>>,
       <<<<"o","c","t">>, 10>>,
       <<<<"o","c","t","o","b","e","r">>, 10>>,
       <<<<"o","c","t","u","b","r","e">>, 10>>,
       <<<<"n","o","v">>, 11>>,
       <<<<"n","o","v","e","m","b","e","r">>, 11>>,
       <<<<"n","o","v","i","e","m","b","r","e">>, 11>>,
       <<<<"d","e","c">>, 12>>,
       <<<<"d","e","c","e","m","b","e","r">>, 12>>,
       <<<<"d","i","c">>, 12>>,
       <<<<"d","i","c","i","e","m","b","r","e">>, 12>> }

\* dict.get(monthStr.lower(), 0)
monthStrToNum(monthStr) ==
    IF \E e \in MonthTable : e[1] = lower(monthStr)
    THEN (CHOOSE e \in MonthTable : e[1] = lower(monthStr))[2]
    ELSE 0

\* C5 mutant: the range check and its fallback to the current month are missing
parseMonth_NoRangeCheck(monthStr) ==
    LET p == IntParse(monthStr)
        month == IF p.ok THEN p.val ELSE 0
    IN  IF month = 0 THEN monthStrToNum(monthStr) ELSE month

parseMonth(monthStr) ==
    LET p == IntParse(monthStr)
        month == IF p.ok
                 THEN (IF p.val < 1 \/ p.val > 12 THEN now.month ELSE p.val)
                 ELSE 0
    IN  IF month = 0 THEN monthStrToNum(monthStr) ELSE month

(***************************************************************************)
(* MoneyManagerQuery: per-record transformations.                           *)
(***************************************************************************)
\* date(int(year), int(month), int(day)) succeeds
DateOk(strDate) ==
    LET p == split(strDate, "-")
    IN  /\ Len(p) = 3
        /\ \A i \in 1..3 : IntParse(p[i]).ok
        /\ IntParse(p[1]).val \in 1..9999
        /\ IntParse(p[2]).val \in 1..12
        /\ IntParse(p[3]).val \in 1..monthrange(IntParse(p[1]).val, IntParse(p[2]).val)

\* strftime("%d/%m/%Y")
processDate(strDate) ==
    LET p == split(strDate, "-")
    IN  ZeroPad(NatStr(IntParse(p[3]).val), 2) \o <<"/">>
            \o ZeroPad(NatStr(IntParse(p[2]).val), 2) \o <<"/">>
            \o ZeroPad(NatStr(IntParse(p[1]).val), 4)

processCategory(category) ==
    IF find(category, "/") >= 0
    THEN split(category, "/")[2]
    ELSE category

\* C8 mutant: the cents are never padded
processAmount_NoPad(amount) ==
    LET p == split(FloatStr(amount), ".")
    IN  p[1] \o <<",">> \o p[2]

processAmount(amount) ==
    LET p == SubSeq(split(FloatStr(amount), "."), 1, 2)
        amt_integer == p[1]
        amt_cents == IF Len(p[2]) < 2 THEN p[2] \o <<"0">> ELSE p[2]
    IN  amt_integer \o <<",">> \o amt_cents

processPaymentMethod(pm) ==
    LET s == strip(pm)
    IN  IF s = <<"T","i","c","k","e","t","s">> THEN <<"T","i">>
        ELSE IF s = <<"T","r","a","n","s","f","e","r","e","n","c","i","a">> THEN <<"T">>
        ELSE IF s = <<"E","f","e","c","t","i","v","o">> THEN <<"E">>
        ELSE IF s = <<"T","."," ","D","é","b","i","t","o">> THEN <<"T","D">>
        ELSE IF s = <<"T","."," ","C","r","é","d","i","t","o">> THEN <<"T","C">>
        ELSE IF s = <<"P","a","y","P","a","l">> THEN <<"P">>
        ELSE <<"I","N","V","A","L","I","D">>

processName(tr_name) == tr_name

(***************************************************************************)
(* MoneyManagerQuery: the instance and its date range.                      *)
(***************************************************************************)
\* the attributes of the instance that its methods read and write
Self ==
    [startDate |-> startDate, endDate |-> endDate,
     queryStatement |-> queryStatement, totalAmount |-> totalAmount]

\* __init__
NewSelf ==
    [startDate |-> None, endDate |-> None, queryStatement |-> None,
     totalAmount |-> [float |-> FALSE, milli |-> 0]]

\* the instance right after __init__
Constructed ==
    /\ startDate = NewSelf.startDate
    /\ endDate = NewSelf.endDate
    /\ queryStatement = NewSelf.queryStatement
    /\ totalAmount = NewSelf.totalAmount

Assign(self) ==
    /\ startDate' = self.startDate
    /\ endDate' = self.endDate
    /\ queryStatement' = self.queryStatement
    /\ totalAmount' = self.totalAmount

\* C1 mutant: the January case is missing
getStartDate_NoJanuary(self) ==
    LET s == IF self.startDate = None
             THEN Date(now.year, now.month - 1, 1)
             ELSE self.startDate
    IN  [self |-> [self EXCEPT !.startDate = s], ret |-> s]

\* a method with a result gives [self |-> the instance afterwards, ret |-> the
\* value returned or the exception raised]
getStartDate(self) ==
    LET s == IF self.startDate = None
             THEN (IF now.month = 1
                   THEN Date(now.year - 1, 12, 1)
                   ELSE Date(now.year, now.month - 1, 1))
             ELSE self.startDate
    IN  [self |-> [self EXCEPT !.startDate = s], ret |-> s]

\* C10 mutant: writing the start also drops the cached end
setStartDate_DropsEnd(self, d) == [self EXCEPT !.startDate = d, !.endDate = None]

setStartDate(self, d) == [self EXCEPT !.startDate = d]

\* a str has no attribute year: AttributeError, raised after getStartDate ran
getEndDate(self) ==
    IF self.endDate = None
    THEN LET g == getStartDate(self)
         IN  IF g.ret.kind = "date"
             THEN LET e == Date(g.ret.year, g.ret.month,
                                monthrange(g.ret.year, g.ret.month))
                  IN  [self |-> [g.self EXCEPT !.endDate = e], ret |-> e]
             ELSE [self |-> g.self, ret |-> Raised("AttributeError")]
    ELSE [self |-> self, ret |-> self.endDate]

setEndDate(self, d) == [self EXCEPT !.endDate = d]

setMonth(self, monthStr) ==
    LET month == parseMonth(monthStr)
    IN  IF month # 0
        THEN setEndDate(setStartDate(self, Date(now.year, month, 1)),
                        Date(now.year, month, monthrange(now.year, month)))
        ELSE setEndDate(setStartDate(self, None), None)

\* the statement is represented by the two texts spliced into its BETWEEN
getQueryStatement(self) ==
    IF self.queryStatement = None
    THEN LET gs == getStartDate(self)
             ge == getEndDate(gs.self)
         IN  IF ge.ret.kind = "error"
             THEN [self |-> ge.self, ret |-> ge.ret]
             ELSE LET q == [kind |-> "sql", localStartDate |-> PyStr(gs.ret),
                            localEndDate |-> PyStr(ge.ret)]
                  IN  [self |-> [ge.self EXCEPT !.queryStatement = q], ret |-> q]
    ELSE [self |-> self, ret |-> self.queryStatement]

(***************************************************************************)
(* MoneyManagerQuery: the query and the report.                             *)
(***************************************************************************)
\* the WHERE clause of the SELECT
Selected(q, z) ==
    /\ StrLE(q.localStartDate, z.ztxdatestr)
    /\ StrLE(z.ztxdatestr, q.localEndDate)
    /\ z.zisdel = 0
    /\ z.zdo_type = 1

\* cursor.execute(...): the selected rows, in store (z.zdate) order
Execute(q) == SelectSeq(store, LAMBDA z : Selected(q, z))

Row(z) ==
    <<processDate(z.ztxdatestr), processCategory(z.zname), processName(z.zcontent),
      processAmount(z.zamount), processPaymentMethod(z.znicname)>>

\* self.totalAmount += tr_amount: the int 0 becomes a float
AddAmount(total, amount) == [float |-> TRUE, milli |-> total.milli + amount]

\* the loop of getResult over rows k..Len(rows); processDate raises ValueError
\* on a text that is no date, and the rows before it stay accumulated
RECURSIVE ResultLoop(_, _, _, _)
ResultLoop(rows, k, result, total) ==
    IF k > Len(rows) THEN [result |-> result, total |-> total, ok |-> TRUE]
    ELSE IF ~DateOk(rows[k].ztxdatestr)
         THEN [result |-> result, total |-> total, ok |-> FALSE]
         ELSE ResultLoop(rows, k + 1, Append(result, Row(rows[k])),
                         AddAmount(total, rows[k].zamount))

getResult(self) ==
    LET q == getQueryStatement(self)
    IN  IF q.ret.kind = "error" THEN q
        ELSE LET l == ResultLoop(Execute(q.ret), 1, <<>>, q.self.totalAmount)
             IN  [self |-> [q.self EXCEPT !.totalAmount = l.total],
                  ret |-> IF l.ok THEN [kind |-> "list", rows |-> l.result]
                          ELSE Raised("ValueError")]

\* round(x, 2) of a float: the nearest hundredth; on a decimal tie the binary
\* value of x decides, so either neighbour is possible
Round2(milli) ==
    IF milli % 10 = 5 THEN {milli - 5, milli + 5}
    ELSE IF milli % 10 < 5 THEN {milli - (milli % 10)}
    ELSE {milli + 10 - (milli % 10)}

\* str(round(self.totalAmount, 2)): the texts it can give
TotalTexts(total) ==
    IF total.float THEN {FloatStr(r) : r \in Round2(total.milli)}
    ELSE {IntStr(total.milli)}

Header ==
    <<"f","e","c","h","a",";","c","a","t","e","g","o","r","í","a",";",
      "c","o","m","e","n","t","a","r","i","o",";","i","m","p","o","r","t","e",";",
      "f","o","r","m","a"," ","p","a","g","o">>

RECURSIVE Lines(_)
Lines(rows) ==
    IF Len(rows) = 0 THEN <<>>
    ELSE Head(rows)[1] \o <<";">> \o Head(rows)[2] \o <<";">> \o Head(rows)[3]
            \o <<";">> \o Head(rows)[4] \o <<";">> \o Head(rows)[5] \o <<"\n">>
            \o Lines(Tail(rows))

\* the set of outcomes of toString(): one per text round() can give
toString(self) ==
    LET r == getResult(self)
    IN  IF r.ret.kind = "error" THEN {r}
        ELSE {[self |-> r.self,
               ret |-> Str(Header \o <<"\n">> \o Lines(r.ret.rows)
                            \o <<"T","o","t","a","l",":"," ">> \o t)] :
                 t \in TotalTexts(r.self.totalAmount)}

toCSV(self) == toString(self)

(***************************************************************************)
(* Inputs of the transformations.                                           *)
(***************************************************************************)
Nows == [year : {2024, 2025, 2100}, month : 1..12]

TokenChars == {"0", "1", "3", "-", " ", "J", "a", "n"}

NamedTokens ==
    { <<"E","n","e","r","o">>, <<"M","a","r","c","h">>, <<"f","o","o">>,
      <<"D","I","C">>, <<"s","e","p","t","i","e","m","b","r","e">>,
      <<"f","e","b","r","u","a","r","y","s">> }

Tokens == SeqsUpTo(TokenChars, MaxTokLen) \cup NamedTokens

Categories == SeqsUpTo({"a", "b", "/"}, MaxCatLen)

Amounts == 0..MaxMilli

FnInputs ==
    [fn : {"parseMonth"}, v : Tokens]
        \cup [fn : {"processCategory"}, v : Categories]
        \cup [fn : {"processAmount"}, v : Amounts]

(***************************************************************************)
(* SpecFn: one call of a transformation on one input.                       *)
(***************************************************************************)
\* only __parseMonth reads the clock, and only its month
InitFn ==
    /\ Constructed
    /\ store = <<>> /\ renders = <<>> /\ args = None
    /\ arg \in FnInputs
    /\ now \in IF arg.fn = "parseMonth"
               THEN {n \in Nows : n.year = 2024}
               ELSE {[year |-> 2024, month |-> 4]}
    /\ pc = "call" /\ lastOp = "init" /\ ret = None

CallParseMonth ==
    /\ pc = "call" /\ arg.fn = "parseMonth"
    /\ ret' = parseMonth(arg.v)
    /\ lastOp' = "parseMonth" /\ pc' = "done"
    /\ UNCHANGED <<now, startDate, endDate, queryStatement, totalAmount, store,
                   renders, args, arg>>

CallProcessCategory ==
    /\ pc = "call" /\ arg.fn = "processCategory"
    /\ ret' = processCategory(arg.v)
    /\ lastOp' = "processCategory" /\ pc' = "done"
    /\ UNCHANGED <<now, startDate, endDate, queryStatement, totalAmount, store,
                   renders, args, arg>>

CallProcessAmount ==
    /\ pc = "call" /\ arg.fn = "processAmount"
    /\ ret' = processAmount(arg.v)
    /\ lastOp' = "processAmount" /\ pc' = "done"
    /\ UNCHANGED <<now, startDate, endDate, queryStatement, totalAmount, store,
                   renders, args, arg>>

NextFn == CallParseMonth \/ CallProcessCategory \/ CallProcessAmount

SpecFn == InitFn /\ [][NextFn]_vars

(***************************************************************************)
(* Inputs of the instance: dates, month tokens, store rows, command lines.  *)
(***************************************************************************)
ExplicitDates ==
    { None, Date(2024, 5, 1), Date(2024, 1, 31),
      Str(<<"2","0","2","4","-","0","2","-","1","0">>),
      Str(<<"2","0","2","4","-","1","2","-","3","1">>) }

RangeTokens ==
    { <<"2">>, <<"1","3">>, <<"E","n","e","r","o">>, <<"f","o","o">> }

StoreRows ==
    { [ztxdatestr |-> <<"2","0","2","4","-","0","3","-","1","5">>,
       zname |-> <<"O","c","i","o","/","C","i","n","e">>,
       zcontent |-> <<"M","o","v","i","e">>, zamount |-> 8500,
       znicname |-> <<"P","a","y","P","a","l">>, zisdel |-> 0, zdo_type |-> 1],
      [ztxdatestr |-> <<"2","0","2","4","-","0","3","-","2","0">>,
       zname |-> <<"F","o","o","d">>,
       zcontent |-> <<"L","u","n","c","h">>, zamount |-> 12340,
       znicname |-> <<" ","E","f","e","c","t","i","v","o">>, zisdel |-> 0, zdo_type |-> 1],
      [ztxdatestr |-> <<"2","0","2","4","-","0","3","-","1","6">>,
       zname |-> <<"F","o","o","d">>,
       zcontent |-> <<"G","o","n","e">>, zamount |-> 1000,
       znicname |-> <<"B","i","t","c","o","i","n">>, zisdel |-> 1, zdo_type |-> 1] }

Stores == SeqsUpTo(StoreRows, MaxRecords)

ReportNows == {[year |-> 2024, month |-> 4]}

ReportDates ==
    { Str(<<"2","0","2","4","-","0","3","-","1","6">>),
      Str(<<"2","0","2","4","-","0","3","-","3","1">>) }

ReportTokens == { <<"M","a","r","c","h">>, <<"f","o","o">> }

CommandLines ==
    [month : {None} \cup {Str(t) : t \in RangeTokens},
     start : {None, Str(<<"2","0","2","4","-","0","3","-","0","1">>),
                    Str(<<"2","0","2","4","-","0","5","-","2","0">>)},
     end   : {None, Str(<<"2","0","2","4","-","0","3","-","3","1">>)}]

(***************************************************************************)
(* Calls of the methods of one instance by its owner.                       *)
(***************************************************************************)
InitApi(nows, stores) ==
    /\ Constructed
    /\ now \in nows
    /\ store \in stores
    /\ renders = <<>>
    /\ args = None
    /\ pc = "api" /\ lastOp = "init" /\ arg = None /\ ret = None

CallGetStartDate ==
    /\ pc = "api"
    /\ Assign(getStartDate(Self).self)
    /\ ret' = getStartDate(Self).ret
    /\ lastOp' = "getStartDate" /\ arg' = None
    /\ UNCHANGED <<now, store, renders, pc, args>>

CallSetStartDate(dates) ==
    /\ pc = "api"
    /\ \E d \in dates :
        /\ Assign(setStartDate(Self, d))
        /\ arg' = d
    /\ ret' = None /\ lastOp' = "setStartDate"
    /\ UNCHANGED <<now, store, renders, pc, args>>

CallGetEndDate ==
    /\ pc = "api"
    /\ Assign(getEndDate(Self).self)
    /\ ret' = getEndDate(Self).ret
    /\ lastOp' = "getEndDate" /\ arg' = None
    /\ UNCHANGED <<now, store, renders, pc, args>>

CallSetEndDate(dates) ==
    /\ pc = "api"
    /\ \E d \in dates :
        /\ Assign(setEndDate(Self, d))
        /\ arg' = d
    /\ ret' = None /\ lastOp' = "setEndDate"
    /\ UNCHANGED <<now, store, renders, pc, args>>

CallSetMonth(tokens) ==
    /\ pc = "api"
    /\ \E t \in tokens :
        /\ Assign(setMonth(Self, t))
        /\ arg' = Str(t)
    /\ ret' = None /\ lastOp' = "setMonth"
    /\ UNCHANGED <<now, store, renders, pc, args>>

CallToString ==
    /\ pc = "api"
    /\ Len(renders) < MaxRenders
    /\ \E o \in toString(Self) :
        /\ Assign(o.self)
        /\ ret' = o.ret
        /\ renders' = IF o.ret.kind = "str" THEN Append(renders, o.ret.s) ELSE renders
    /\ lastOp' = "toString" /\ arg' = None
    /\ UNCHANGED <<now, store, pc, args>>

(***************************************************************************)
(* SpecRange: any sequence of resolver calls on a new instance.             *)
(***************************************************************************)
InitRange == InitApi(Nows, {<<>>})

NextRange ==
    \/ CallGetStartDate
    \/ CallSetStartDate(ExplicitDates)
    \/ CallGetEndDate
    \/ CallSetEndDate(ExplicitDates)
    \/ CallSetMonth(RangeTokens)

SpecRange == InitRange /\ [][NextRange]_vars

(***************************************************************************)
(* SpecReport: range calls and repeated renderings on a new instance.       *)
(***************************************************************************)
InitReport == InitApi(ReportNows, Stores)

NextReport ==
    \/ CallSetStartDate(ReportDates)
    \/ CallSetEndDate(ReportDates)
    \/ CallSetMonth(ReportTokens)
    \/ CallToString

SpecReport == InitReport /\ [][NextReport]_vars

(***************************************************************************)
(* SpecMain: one run of the program.                                        *)
(***************************************************************************)
InitMain ==
    /\ Constructed
    /\ now \in Nows
    /\ store \in Stores
    /\ renders = <<>>
    /\ args \in CommandLines
    /\ pc = "main" /\ lastOp = "init" /\ arg = None /\ ret = None

\* C4 mutant: the explicit dates are applied after the month
Configure_DatesToo(self) ==
    LET m == IF args.month # None THEN setMonth(self, args.month.s) ELSE self
    IN  setEndDate(setStartDate(m, args.start), args.end)

\* if args.month != None: setMonth, else: setStartDate and setEndDate
Configure(self) ==
    IF args.month # None
    THEN setMonth(self, args.month.s)
    ELSE setEndDate(setStartDate(self, args.start), args.end)

MainConfigure ==
    /\ pc = "main"
    /\ Assign(Configure(Self))
    /\ pc' = "configured"
    /\ lastOp' = IF args.month # None THEN "setMonth" ELSE "setEndDate"
    /\ UNCHANGED <<now, store, renders, args, arg, ret>>

\* result = mmquery.toCSV(); print(result).  An exception ends the run.
MainToCSV ==
    /\ pc = "configured"
    /\ \E o \in toCSV(Self) :
        /\ Assign(o.self)
        /\ ret' = o.ret
        /\ renders' = IF o.ret.kind = "str" THEN Append(renders, o.ret.s) ELSE renders
        /\ pc' = IF o.ret.kind = "str" THEN "done" ELSE "error"
    /\ lastOp' = "toCSV"
    /\ UNCHANGED <<now, store, args, arg>>

NextMain == MainConfigure \/ MainToCSV

SpecMain == InitMain /\ [][NextMain]_vars

(***************************************************************************)
(* Claims about the transformations, checked under SpecFn.                  *)
(***************************************************************************)
\* C5: __parseMonth returns a value in 0..12: an integer token in 1..12 gives
\* that integer, an integer token outside 1..12 gives the current month, a
\* non-integer token found in the name table (case-insensitively) gives its
\* month number, and 0 is returned exactly for every other token.
C5_ParseMonthResult ==
    (pc = "done" /\ lastOp = "parseMonth") =>
        LET isInt == IntParse(arg.v).ok
            n == IntParse(arg.v).val
            named == \E e \in MonthTable : e[1] = lower(arg.v)
        IN  /\ ret \in 0..12
            /\ (isInt /\ n \in 1..12) => ret = n
            /\ (isInt /\ n \notin 1..12) => ret = now.month
            /\ (~isInt /\ named) => \E e \in MonthTable : e[1] = lower(arg.v) /\ ret = e[2]
            /\ (ret = 0) <=> (~isInt /\ ~named)

\* C5 witness: the token "13" was resolved to the current month, July
C5_Witness ==
    /\ pc = "done" /\ lastOp = "parseMonth"
    /\ arg.v = <<"1", "3">> /\ now.month = 7 /\ ret = 7

\* C7 as stated: with a "/" the result is everything after the first "/",
\* without one the category is unchanged.
C7_Original ==
    (pc = "done" /\ lastOp = "processCategory") =>
        ret = IF \E i \in 1..Len(arg.v) : arg.v[i] = "/"
              THEN SubSeq(arg.v, find(arg.v, "/") + 2, Len(arg.v))
              ELSE arg.v

\* C8 as stated: the result is the integer part, a comma and exactly two
\* fractional digits, the first two when the amount has more.
C8_Original ==
    (pc = "done" /\ lastOp = "processAmount") =>
        ret = NatStr(arg.v \div 1000) \o <<",">>
                \o ZeroPad(NatStr((arg.v % 1000) \div 10), 2)

\* C8 amended: the result is the integer part, a comma and the fractional
\* digits of the amount's decimal text: one digit is right-padded with "0",
\* two digits are kept, and more than two digits are all kept.
C8_CentsPaddedNotCut ==
    (pc = "done" /\ lastOp = "processAmount") =>
        ret = NatStr(arg.v \div 1000) \o <<",">>
                \o (IF arg.v % 10 # 0
                    THEN ZeroPad(NatStr(arg.v % 1000), 3)
                    ELSE ZeroPad(NatStr((arg.v % 1000) \div 10), 2))

\* C8 witness: 12.345 was transformed to "12,345"
C8_Witness ==
    /\ pc = "done" /\ lastOp = "processAmount"
    /\ arg.v = 12345 /\ ret = <<"1", "2", ",", "3", "4", "5">>

(***************************************************************************)
(* The calendar, as the claims about the date range state it.               *)
(***************************************************************************)
CalendarLastDay(y, m) ==
    LET leap == (y % 4 = 0 /\ y % 100 # 0) \/ y % 400 = 0
    IN  <<31, IF leap THEN 29 ELSE 28, 31, 30, 31, 30, 31, 31, 30, 31, 30, 31>>[m]

\* the range is the whole calendar month preceding now
IsPreviousMonth(s, e) ==
    /\ s.kind = "date" /\ s.day = 1 /\ s.month \in 1..12
    /\ 12 * s.year + s.month + 1 = 12 * now.year + now.month
    /\ e = Date(s.year, s.month, CalendarLastDay(s.year, s.month))

\* YYYYMMDD of a date or of a YYYY-MM-DD text
DayNumber(v) ==
    IF v.kind = "date" THEN 10000 * v.year + 100 * v.month + v.day
    ELSE 10000 * IntParse(split(v.s, "-")[1]).val
            + 100 * IntParse(split(v.s, "-")[2]).val
            + IntParse(split(v.s, "-")[3]).val

(***************************************************************************)
(* Claims about one run of the program, checked under SpecMain.             *)
(***************************************************************************)
\* C1: with no start, end or month supplied, the resolved start is day 1 of
\* the calendar month preceding now (December of the year before when now is
\* in January) and the resolved end is the last day of that month.
C1_DefaultRange ==
    (args.month = None /\ args.start = None /\ args.end = None) =>
        /\ pc # "error"
        /\ pc = "done" => IsPreviousMonth(startDate, endDate)

\* C1 witness: a run in March 2024 with no date option resolved 1..29 February
C1_Witness ==
    /\ pc = "done"
    /\ args.month = None /\ args.start = None /\ args.end = None
    /\ now = [year |-> 2024, month |-> 3]
    /\ startDate = Date(2024, 2, 1) /\ endDate = Date(2024, 2, 29)

\* C2 as stated: with a YYYY-MM-DD start on the command line and no end (and
\* no month), the run does not end in an error and the end resolves to the
\* last day of the start's month.
C2_StartOnlyResolves ==
    (pc \in {"done", "error"} /\ args.month = None
        /\ args.start # None /\ args.end = None) =>
        /\ pc = "done"
        /\ LET y == IntParse(split(args.start.s, "-")[1]).val
               m == IntParse(split(args.start.s, "-")[2]).val
           IN  endDate = Date(y, m, CalendarLastDay(y, m))

\* C4: a month token on the command line decides the range whatever start and
\* end are given with it: a token resolved to m in 1..12 gives day 1 to the
\* last day of month m of the current year, an unresolved token gives the
\* previous-month range, and the run does not end in an error.
C4_MonthPrecedence ==
    (args.month # None) =>
        /\ pc # "error"
        /\ pc = "done" =>
            IF \E m \in 1..12 : parseMonth(args.month.s) = m
            THEN \E m \in 1..12 :
                    /\ parseMonth(args.month.s) = m
                    /\ startDate = Date(now.year, m, 1)
                    /\ endDate = Date(now.year, m, CalendarLastDay(now.year, m))
            ELSE IsPreviousMonth(startDate, endDate)

\* C4 witness: -m Enero with -s and -e given resolved the whole of January 2025
C4_Witness ==
    /\ pc = "done"
    /\ args.month = Str(<<"E","n","e","r","o">>)
    /\ args.start # None /\ args.end # None
    /\ now.year = 2025
    /\ startDate = Date(2025, 1, 1) /\ endDate = Date(2025, 1, 31)

(***************************************************************************)
(* Claims about sequences of calls, checked under SpecRange and SpecReport. *)
(***************************************************************************)
\* C3 as stated: after any sequence of setStartDate, setEndDate, setMonth,
\* getStartDate and getEndDate calls, the pair the getters resolve satisfies
\* start <= end.
C3_RangeNeverInverted ==
    (getEndDate(Self).ret.kind # "error") =>
        DayNumber(getStartDate(Self).ret) <= DayNumber(getEndDate(Self).ret)

\* C6 as stated: every rendering of one query over the same store gives the
\* same text, a second rendering after a first one included.
C6_RenderingsIdentical ==
    \A i \in 1..Len(renders) : \A j \in 1..Len(renders) : renders[i] = renders[j]

\* the rows of the store that are not deleted, are expenses and are dated
\* within the range the query was built for, in store order
C9_Matching ==
    SelectSeq(store, LAMBDA z :
        /\ z.zisdel = 0 /\ z.zdo_type = 1
        /\ DayNumber(Str(queryStatement.localStartDate)) <= DayNumber(Str(z.ztxdatestr))
        /\ DayNumber(Str(z.ztxdatestr)) <= DayNumber(Str(queryStatement.localEndDate)))

RECURSIVE C9_RecordLines(_)
C9_RecordLines(rows) ==
    IF rows = <<>> THEN <<>>
    ELSE processDate(rows[1].ztxdatestr) \o <<";">>
            \o processCategory(rows[1].zname) \o <<";">>
            \o rows[1].zcontent \o <<";">>
            \o processAmount(rows[1].zamount) \o <<";">>
            \o processPaymentMethod(rows[1].znicname) \o <<"\n">>
            \o C9_RecordLines(Tail(rows))

RECURSIVE C9_Sum(_)
C9_Sum(rows) == IF rows = <<>> THEN 0 ELSE rows[1].zamount + C9_Sum(Tail(rows))

\* C9 as stated: a report is the header line, one line per matching record in
\* store order (date;category;comment;amount;paymentMethodCode), and a last
\* line "Total: " followed by the sum of the raw amounts of exactly those
\* records; with no matching record it is the header followed by "Total: 0".
C9_ReportStructure ==
    \A i \in 1..Len(renders) :
        renders[i] = Header \o <<"\n">> \o C9_RecordLines(C9_Matching)
                        \o <<"T","o","t","a","l",":"," ">>
                        \o (IF Len(C9_Matching) = 0 THEN <<"0">>
                            ELSE FloatStr(C9_Sum(C9_Matching)))

\* C10: a getter whose field is already set returns that field and leaves it
\* alone; setStartDate writes the start and leaves the end as it is, also when
\* the end was computed from an earlier start; setEndDate writes the end and
\* never changes the start; a set field changes only by setStartDate,
\* setEndDate or setMonth.
C10_ComputedOnce ==
    [][ /\ (lastOp' = "getStartDate" /\ startDate # None) =>
                (startDate' = startDate /\ ret' = startDate)
        /\ (lastOp' = "getEndDate" /\ endDate # None) =>
                (endDate' = endDate /\ ret' = endDate)
        /\ (lastOp' = "setStartDate") =>
                (startDate' = arg' /\ endDate' = endDate)
        /\ (lastOp' = "setEndDate") =>
                (endDate' = arg' /\ startDate' = startDate)
        /\ (startDate # None /\ startDate' # startDate) =>
                lastOp' \in {"setStartDate", "setMonth"}
        /\ (endDate # None /\ endDate' # endDate) =>
                lastOp' \in {"setEndDate", "setMonth"}
      ]_vars

\* C10 witness: in April 2024 the end was computed as 31 March from the
\* default start, and setStartDate(1 May) then left it in place
C10_Witness ==
    /\ now = [year |-> 2024, month |-> 4]
    /\ lastOp = "setStartDate" /\ arg = Date(2024, 5, 1)
    /\ startDate = Date(2024, 5, 1) /\ endDate = Date(2024, 3, 31)

====
